---- MODULE Spec2Model ----
(***************************************************************************)
(* A model of elba's package cache (src/lib/retrieve/cache.rs): the Cache  *)
(* operations on sources, builds and indices over a filesystem of          *)
(* directories guarded by DirLocks, run by concurrent workers.             *)
(*                                                                         *)
(* A directory is a record [exists, entries]; entries is the set of the    *)
(* names found in it.  A path is a string, built with join as PathBuf's    *)
(* join builds it.  SHA-256 and hexify_hash are taken to be injective (the *)
(* spec's collision model) and are modelled by the hashed bytes            *)
(* themselves.                                                             *)
(***************************************************************************)
EXTENDS Naturals, Integers, Sequences, FiniteSets, TLC

VARIABLES
    layout,     \* the Layout value of the Cache (seven recorded paths)
    layoutErr,  \* history: a create_dir_all of Layout::new hit an IO error
    fs,         \* the filesystem: path -> [exists, entries]
    locks,      \* path -> the worker holding the live DirLock on it, or Free
    pc,         \* worker -> the step of the operation it is running
    call,       \* worker -> arguments, locals and result of its operation
    retrieved,  \* history: source directories a Retriever call populated
    netFailed,  \* history: source directories a Retriever call failed on
    succeeded,  \* history: source directories a checkout_source returned Ok for
    stored,     \* history: hash -> what the last completed store_build copied,
                \* valid for as long as the directory still holds exactly that
    q,          \* get_indices: the worklist
    seen,       \* get_indices: the resolutions already loaded
    indices,    \* get_indices: the loaded indices, in load order
    seeds,      \* get_indices: the argument index_reses
    graph,      \* what each index on disk declares as its dependencies
    enq,        \* history: every resolution pushed on the worklist, in order
    failed,     \* history: resolutions whose processing failed in this call
    faults      \* history: lock faults injected so far (bounded)

vars == <<layout, layoutErr, fs, locks, pc, call, retrieved, netFailed, succeeded, stored,
          q, seen, indices, seeds, graph, enq, failed, faults>>

idxVars == <<q, seen, indices, seeds, graph, enq, failed, faults>>
srcHist == <<retrieved, netFailed, succeeded>>

(***************************************************************************)
(* Bounds of the model.                                                    *)
(***************************************************************************)
NumWorkers == 2
MaxSeeds == 2
MaxDeps == 2
MaxFaults == 1
MaxPartial == 1

Workers == 1..NumWorkers
Free == 0

(***************************************************************************)
(* Paths and the Layout.                                                   *)
(***************************************************************************)
join(a, b) == a \o "/" \o b

Root == "cache"

LayoutNew(root) ==
    [root |-> root,
     bin |-> join(root, "bin"),
     artifacts |-> join(root, "artifacts"),
     src |-> join(root, "src"),
     build |-> join(root, "build"),
     indices |-> join(root, "indices"),
     tmp |-> join(root, "tmp")]

LayoutDirs(l) == {l.root, l.artifacts, l.bin, l.src, l.build, l.indices, l.tmp}

\* The Layout of a Cache that has not been constructed yet.
NoLayout ==
    [root |-> "", bin |-> "", artifacts |-> "", src |-> "", build |-> "",
     indices |-> "", tmp |-> ""]

\* The hash the workers operate on, and every hash with directories on disk.
Hashes == {"abc"}
AllHashes == {"abc", "def"}

NoDir == [exists |-> FALSE, entries |-> {}]
EmptyDir == [exists |-> TRUE, entries |-> {}]

Stale == "old.ibc"
ArtFiles == {"A.ibc"}

(***************************************************************************)
(* DirectRes: Tar{url, cksum}, Git{url, tag}, Dir{url}.                    *)
(***************************************************************************)
NoLoc == [kind |-> "none", url |-> "", tag |-> ""]

NoName == [group |-> "", name |-> ""]

\* A worker's call: the arguments (name, loc, v, h, from), the locals (path: the
\* directory it works on; hit: what check_source or check_build found), the
\* result (res; content: the entries of the directory when it returned; meta:
\* the manifest's name, or the message of a name mismatch) and its history: existed (the directory existed when
\* the call checked it), dirty (it held entries then), nretr and rdest (the
\* Retriever invocations and their destination; rlock: who held the DirLock on
\* the destination when the Retriever was invoked), early (a checkout_source had
\* already succeeded on the directory when the call began; for checkout_build,
\* a store_build had), retry (a retrieve
\* had already failed on it), st (stored[h] when the call returned). For the
\* scaffolder, bin and author are the fields of its NewCtx.
NoCall ==
    [op |-> "none", bin |-> FALSE, author |-> "", h |-> "", from |-> "", path |-> "", res |-> "none",
     content |-> {}, name |-> NoName, loc |-> NoLoc, v |-> "", hit |-> FALSE,
     existed |-> FALSE, dirty |-> FALSE,
     nretr |-> 0, rdest |-> "", rlock |-> Free, meta |-> "", early |-> FALSE, retry |-> FALSE,
     st |-> [valid |-> FALSE, entries |-> {}]]

NoPath == ""

(***************************************************************************)
(* util::lock::DirLock, util::clear_dir, util::copy_dir.                   *)
(***************************************************************************)
\* DirLock::acquire(path) succeeding for worker w: creates path if absent and
\* records the exclusive claim.
AcquireOk(w, p) ==
    /\ locks[p] = Free
    /\ fs' = [fs EXCEPT ![p].exists = TRUE]
    /\ locks' = [locks EXCEPT ![p] = w]

\* DirLock::acquire(path) failing: Busy when a DirLock on path is live, or an
\* IO error; nothing is created and no claim is recorded.
AcquireErr(w, p) ==
    /\ fs' = fs
    /\ locks' = locks

\* Dropping every DirLock worker w owns.
Released(w) == [p \in DOMAIN locks |-> IF locks[p] = w THEN Free ELSE locks[p]]

\* The order in which a directory's entries are visited (read_dir).
EntryOrder ==
    <<"old.ibc", "A.ibc", "bin", "build", "deps", "lib",
      "elba.toml=a/b", "elba.toml=a/c", "elba.toml=?", "src/Lib.idr", "src/Main.idr",
      "index.toml">>

\* The first k entries of the set e, in visiting order.
FirstK(e, k) ==
    {EntryOrder[i] : i \in {j \in DOMAIN EntryOrder :
        /\ EntryOrder[j] \in e
        /\ Cardinality({m \in 1..j : EntryOrder[m] \in e}) <= k}}

\* clear_dir(dir): the directory exists and is empty afterwards.
ClearDir(d) == EmptyDir

\* How many entries an operation that fails part-way has handled: fewer than
\* all n of them, and at most MaxPartial.
PartWay(n) == {k \in 0..MaxPartial : k < n \/ k = 0}

\* The states clear_dir can leave behind when it fails part-way: the first k
\* entries are gone.
ClearDirPartial(d) ==
    {[exists |-> TRUE, entries |-> d.entries \ FirstK(d.entries, k)] :
        k \in PartWay(Cardinality(d.entries))}

\* copy_dir(from, to): every entry of from is copied into to.
CopyDir(from, to) == [exists |-> TRUE, entries |-> to.entries \cup from.entries]

\* The states copy_dir can leave behind when it fails part-way: only the first
\* k entries were copied.
CopyDirPartial(from, to) ==
    {[exists |-> TRUE, entries |-> to.entries \cup FirstK(from.entries, k)] :
        k \in PartWay(Cardinality(from.entries))}

(***************************************************************************)
(* The build cache: checkout_build, checkout_tmp, store_build.             *)
(***************************************************************************)
\* check_build, were it to return the path without looking at the disk.
CheckBuildAlways(hash) == join(join(layout.root, "build"), hash)

\* Cache::check_build
CheckBuild(hash) ==
    LET path == join(join(layout.root, "build"), hash)
    IN  IF fs[path].exists THEN path ELSE NoPath

\* A call returns r: the worker now owns what the call returned.
Returned(w, c, r) ==
    [c EXCEPT !.res = r,
              !.content = IF c.path = NoPath THEN {} ELSE fs'[c.path].entries,
              !.st = IF c.h = "" THEN c.st ELSE stored'[c.h]]

\* Cache::checkout_build, lines 189-190 and 194-196: the check, and the None
\* return when the directory is missing.
CheckoutBuild(w, hash) ==
    /\ pc[w] = "idle"
    /\ LET path == CheckBuild(hash)
           dir == join(layout.build, hash)
           c == [NoCall EXCEPT !.op = "checkout_build", !.h = hash,
                               !.early = stored[hash].valid,
                               !.existed = fs[dir].exists, !.dirty = (fs[dir].entries # {})]
       IN  IF path = NoPath
           THEN /\ pc' = [pc EXCEPT ![w] = "ret"]
                /\ call' = [call EXCEPT ![w] = [c EXCEPT !.res = "None",
                                                        !.st = stored[hash]]]
           ELSE /\ pc' = [pc EXCEPT ![w] = "cb_acquire"]
                /\ call' = [call EXCEPT ![w] = [c EXCEPT !.path = path, !.hit = TRUE]]
    /\ UNCHANGED <<layout, layoutErr, fs, locks, srcHist, stored, idxVars>>

\* Cache::checkout_build, lines 191-193: Binary { target: DirLock::acquire(&path)? }
CheckoutBuildAcquire(w) ==
    /\ pc[w] = "cb_acquire"
    /\ pc' = [pc EXCEPT ![w] = "ret"]
    /\ UNCHANGED <<layout, layoutErr, srcHist, stored, idxVars>>
    /\ \/ /\ AcquireOk(w, call[w].path)
          /\ call' = [call EXCEPT ![w] = Returned(w, call[w], "Some")]
       \/ /\ AcquireErr(w, call[w].path)
          /\ call' = [call EXCEPT ![w] = Returned(w, call[w], "ErrLock")]

\* Cache::checkout_tmp, lines 202-203
CheckoutTmp(w, hash) ==
    /\ pc[w] = "idle"
    /\ UNCHANGED <<layout, layoutErr, srcHist, stored, idxVars>>
    /\ LET path == join(layout.tmp, hash)
           c == [NoCall EXCEPT !.op = "checkout_tmp", !.h = hash, !.path = path,
                               !.existed = fs[path].exists, !.dirty = (fs[path].entries # {})]
       IN  \/ /\ AcquireOk(w, path)
              /\ pc' = [pc EXCEPT ![w] = "ct_clear"]
              /\ call' = [call EXCEPT ![w] = c]
           \/ /\ AcquireErr(w, path)
              /\ pc' = [pc EXCEPT ![w] = "ret"]
              /\ call' = [call EXCEPT ![w] = Returned(w, c, "ErrLock")]

\* checkout_tmp, were it not to clear the directory.
CheckoutTmpClearSkip(w) ==
    /\ pc[w] = "ct_clear"
    /\ pc' = [pc EXCEPT ![w] = "ct_layout"]
    /\ UNCHANGED <<layout, layoutErr, fs, locks, call, srcHist, stored, idxVars>>

\* checkout_tmp, were it to clear the whole of layout.tmp.
CheckoutTmpClearAll(w) ==
    /\ pc[w] = "ct_clear"
    /\ UNCHANGED <<layout, layoutErr, locks, call, srcHist, stored, idxVars>>
    /\ fs' = [p \in DOMAIN fs |->
                 IF \E h \in AllHashes : p = join(layout.tmp, h)
                 THEN ClearDir(fs[p]) ELSE fs[p]]
    /\ pc' = [pc EXCEPT ![w] = "ct_layout"]

\* Cache::checkout_tmp, line 204: clear_dir(&path)?
CheckoutTmpClear(w) ==
    /\ pc[w] = "ct_clear"
    /\ UNCHANGED <<layout, layoutErr, srcHist, stored, idxVars>>
    /\ LET path == call[w].path
       IN  \/ /\ fs' = [fs EXCEPT ![path] = ClearDir(fs[path])]
              /\ locks' = locks
              /\ pc' = [pc EXCEPT ![w] = "ct_layout"]
              /\ call' = call
           \/ /\ \E d \in ClearDirPartial(fs[path]) : fs' = [fs EXCEPT ![path] = d]
              /\ locks' = Released(w)
              /\ pc' = [pc EXCEPT ![w] = "ret"]
              /\ call' = [call EXCEPT ![w] = Returned(w, call[w], "ErrIO")]

\* OutputLayout::new, lines 366-374: the directories the OutputLayout records
\* besides its root, by their names under the root.
OutputLayoutRecorded == {"artifacts", "bin", "lib", "build", "deps"}

\* OutputLayout::new: the directories it creates under the locked root.
OutputLayoutNew(d) ==
    [exists |-> TRUE, entries |-> d.entries \cup {"bin", "lib", "build", "deps"}]

\* Cache::checkout_tmp, line 205: Ok(OutputLayout::new(lock))
CheckoutTmpLayout(w) ==
    /\ pc[w] = "ct_layout"
    /\ UNCHANGED <<layout, layoutErr, locks, srcHist, stored, idxVars>>
    /\ fs' = [fs EXCEPT ![call[w].path] = OutputLayoutNew(fs[call[w].path])]
    /\ pc' = [pc EXCEPT ![w] = "ret"]
    /\ call' = [call EXCEPT ![w] = Returned(w, call[w], "OutputLayout")]

\* The builder that owns an OutputLayout writes an artifact into it.
BuilderWrite(w, f) ==
    /\ pc[w] = "ret"
    /\ call[w].res = "OutputLayout"
    /\ f \notin fs[call[w].path].entries
    /\ fs' = [fs EXCEPT ![call[w].path].entries = @ \cup {f}]
    /\ UNCHANGED <<layout, layoutErr, locks, pc, call, srcHist, stored, idxVars>>

\* Cache::store_build, lines 209-213: create_dir_all when dest is missing.
StoreBuild(w, from, hash) ==
    /\ pc[w] = "idle"
    /\ UNCHANGED <<layout, layoutErr, locks, srcHist, stored, idxVars>>
    /\ LET dest == join(layout.build, hash)
           c == [NoCall EXCEPT !.op = "store_build", !.h = hash, !.from = from,
                               !.path = dest,
                               !.existed = fs[dest].exists, !.dirty = (fs[dest].entries # {})]
       IN  \/ /\ fs' = IF ~fs[dest].exists THEN [fs EXCEPT ![dest] = EmptyDir] ELSE fs
              /\ pc' = [pc EXCEPT ![w] = "sb_acquire"]
              /\ call' = [call EXCEPT ![w] = c]
           \/ /\ ~fs[dest].exists
              /\ fs' = fs
              /\ pc' = [pc EXCEPT ![w] = "ret"]
              /\ call' = [call EXCEPT ![w] = Returned(w, c, "ErrIO")]

\* store_build, were it to go on whether or not the DirLock could be acquired.
StoreBuildAcquireAnyway(w) ==
    /\ pc[w] = "sb_acquire"
    /\ UNCHANGED <<layout, layoutErr, fs, locks, call, srcHist, stored, idxVars>>
    /\ pc' = [pc EXCEPT ![w] = "sb_clear"]

\* Cache::store_build, line 215: DirLock::acquire(&dest)?
StoreBuildAcquire(w) ==
    /\ pc[w] = "sb_acquire"
    /\ UNCHANGED <<layout, layoutErr, srcHist, stored, idxVars>>
    /\ \/ /\ AcquireOk(w, call[w].path)
          /\ pc' = [pc EXCEPT ![w] = "sb_clear"]
          /\ call' = call
       \/ /\ AcquireErr(w, call[w].path)
          /\ pc' = [pc EXCEPT ![w] = "ret"]
          /\ call' = [call EXCEPT ![w] = Returned(w, call[w], "ErrLock")]

\* The history of hash once its build directory has become d: what the last
\* completed store_build copied stays on record only while d holds exactly that.
StillStored(hash, d) ==
    IF stored[hash].valid /\ d.entries = stored[hash].entries
    THEN stored
    ELSE [stored EXCEPT ![hash] = [valid |-> FALSE, entries |-> {}]]

\* store_build, were it not to clear dest before the copy.
StoreBuildClearSkip(w) ==
    /\ pc[w] = "sb_clear"
    /\ pc' = [pc EXCEPT ![w] = "sb_copy"]
    /\ UNCHANGED <<layout, layoutErr, fs, locks, call, srcHist, stored, idxVars>>

\* Cache::store_build, line 217: clear_dir(dest.path())?
StoreBuildClear(w) ==
    /\ pc[w] = "sb_clear"
    /\ UNCHANGED <<layout, layoutErr, srcHist, idxVars>>
    /\ LET dest == call[w].path
       IN  \/ /\ fs' = [fs EXCEPT ![dest] = ClearDir(fs[dest])]
              /\ stored' = StillStored(call[w].h, ClearDir(fs[dest]))
              /\ locks' = locks
              /\ pc' = [pc EXCEPT ![w] = "sb_copy"]
              /\ call' = call
           \/ /\ \E d \in ClearDirPartial(fs[dest]) :
                     /\ fs' = [fs EXCEPT ![dest] = d]
                     /\ stored' = StillStored(call[w].h, d)
              /\ locks' = Released(w)
              /\ pc' = [pc EXCEPT ![w] = "ret"]
              /\ call' = [call EXCEPT ![w] = Returned(w, call[w], "ErrIO")]

\* Cache::store_build, lines 218-220: copy_dir(from, dest.path())?; Ok(Binary)
StoreBuildCopy(w) ==
    /\ pc[w] = "sb_copy"
    /\ pc' = [pc EXCEPT ![w] = "ret"]
    /\ UNCHANGED <<layout, layoutErr, srcHist, idxVars>>
    /\ LET dest == call[w].path
           from == call[w].from
       IN  \/ /\ fs[from].exists
              /\ fs' = [fs EXCEPT ![dest] = CopyDir(fs[from], fs[dest])]
              /\ locks' = locks
              /\ stored' = [stored EXCEPT ![call[w].h] =
                               [valid |-> TRUE, entries |-> fs[from].entries]]
              /\ call' = [call EXCEPT ![w] = Returned(w, call[w], "Binary")]
           \/ /\ \E d \in IF fs[from].exists
                          THEN CopyDirPartial(fs[from], fs[dest])
                          ELSE {fs[dest]} :
                     /\ fs' = [fs EXCEPT ![dest] = d]
                     /\ stored' = StillStored(call[w].h, d)
              /\ locks' = Released(w)
              /\ call' = [call EXCEPT ![w] = Returned(w, call[w], "ErrIO")]

\* The caller drops what the call returned (Source, Binary, OutputLayout,
\* Indices or an error): every DirLock it owns is released.
Drop(w) ==
    /\ pc[w] = "ret"
    /\ pc' = [pc EXCEPT ![w] = "idle"]
    /\ call' = [call EXCEPT ![w] = NoCall]
    /\ locks' = Released(w)
    /\ UNCHANGED <<layout, layoutErr, fs, srcHist, stored, idxVars>>

BuildDirs == {join(LayoutNew(Root).build, h) : h \in AllHashes}
TmpDirs == {join(LayoutNew(Root).tmp, h) : h \in AllHashes}

(***************************************************************************)
(* Sources: checkout_source = load_source, then Source::from_folder.       *)
(***************************************************************************)
NameAB == [group |-> "a", name |-> "b"]
NameAC == [group |-> "a", name |-> "c"]
TarLoc == [kind |-> "tar", url |-> "T", tag |-> "ck"]
GitLoc == [kind |-> "git", url |-> "G", tag |-> "master"]
DirLoc == [kind |-> "dir", url |-> "/tmp/mypkg", tag |-> ""]
NoVersion == ""
V1 == "1.0.0"
V2 == "2.0.0"

\* Name's rendering group/name (as_bytes, Display).
NameStr(name) == name.group \o "/" \o name.name

\* DirectRes's canonical string.
LocStr(loc) == loc.kind \o "+" \o loc.url \o (IF loc.tag = "" THEN "" ELSE "#" \o loc.tag)

\* get_source_dir, were a supplied version hashed for every kind of loc.
get_source_dir_anyloc(name, loc, v) ==
    name.group \o "_" \o name.name \o "-" \o NameStr(name) \o LocStr(loc) \o v

\* Cache::get_source_dir, lines 169-183: the bytes fed to the hasher, in order
\* (the digest is injective in them).
source_hash(name, loc, v) ==
    NameStr(name) \o LocStr(loc) \o (IF v # NoVersion /\ loc.kind = "tar" THEN v ELSE "")

\* Cache::get_source_dir
get_source_dir(name, loc, v) ==
    name.group \o "_" \o name.name \o "-" \o source_hash(name, loc, v)

\* check_source, were it never to find a cached directory.
check_source_nocache(name, loc, v) == IF loc.kind = "dir" THEN loc.url ELSE NoPath

\* check_source, were a Dir resolution looked up under layout.src like the others.
check_source_nodir(name, loc, v) ==
    LET path == join(layout.src, get_source_dir(name, loc, v))
    IN  IF fs[path].exists THEN path ELSE NoPath

\* Cache::check_source
check_source(name, loc, v) ==
    IF loc.kind = "dir"
    THEN loc.url
    ELSE LET path == join(layout.src, get_source_dir(name, loc, v))
         IN  IF fs[path].exists THEN path ELSE NoPath

\* The calls the workers make: <<package name, loc, version>>.
SrcCalls ==
    {<<NameAB, TarLoc, V1>>, <<NameAC, TarLoc, V1>>,
     <<NameAB, DirLoc, NoVersion>>}

SrcDirs ==
    {join(LayoutNew(Root).src, get_source_dir(k[1], k[2], k[3])) : k \in SrcCalls}

\* The calls that exercise get_source_dir: two versions of a Tar resolution,
\* and a Git resolution with and without a version.
Versions == {NoVersion, V1, V2}
NameCalls ==
    {<<NameAB, TarLoc, V1>>, <<NameAB, TarLoc, V2>>,
     <<NameAB, GitLoc, NoVersion>>, <<NameAB, GitLoc, V1>>}

NameDirs ==
    {join(LayoutNew(Root).src, get_source_dir(k[1], k[2], k[3])) : k \in NameCalls}

ManifestFile(n) == "elba.toml=" \o n
BadManifest == "elba.toml=?"

\* What the Retriever unpacks or clones for a resolution.
RemoteTree(loc) ==
    IF loc.kind = "tar" THEN {ManifestFile("a/b"), "src/Main.idr"}
    ELSE {ManifestFile("a/b"), "src/Lib.idr"}

\* Cache::checkout_source / load_source, line 131: the check_source lookup.
CheckoutSource(w, name, loc, v) ==
    /\ pc[w] = "idle"
    /\ LET found == check_source(name, loc, v)
           path == IF found # NoPath THEN found
                   ELSE join(layout.src, get_source_dir(name, loc, v))
       IN  call' = [call EXCEPT ![w] =
                       [NoCall EXCEPT !.op = "checkout_source", !.name = name,
                                      !.loc = loc, !.v = v, !.path = path,
                                      !.hit = (found # NoPath),
                                      !.existed = fs[path].exists,
                                      !.dirty = (fs[path].entries # {}),
                                      !.early = (path \in succeeded),
                                      !.retry = (path \in netFailed)]]
    /\ pc' = [pc EXCEPT ![w] = "ls_acquire"]
    /\ UNCHANGED <<layout, layoutErr, fs, locks, srcHist, stored, idxVars>>

\* load_source, were it to go on to the retrieval without the DirLock.
LoadSourceAcquireNoLock(w) ==
    /\ pc[w] = "ls_acquire"
    /\ UNCHANGED <<layout, layoutErr, srcHist, stored, idxVars>>
    /\ fs' = [fs EXCEPT ![call[w].path].exists = TRUE]
    /\ locks' = locks
    /\ pc' = [pc EXCEPT ![w] = IF call[w].hit THEN "from_folder" ELSE "ls_retrieve"]
    /\ call' = call

\* Cache::load_source, lines 132 and 139: DirLock::acquire on the found or the
\* computed path.
LoadSourceAcquire(w) ==
    /\ pc[w] = "ls_acquire"
    /\ UNCHANGED <<layout, layoutErr, srcHist, stored, idxVars>>
    /\ \/ /\ AcquireOk(w, call[w].path)
          /\ pc' = [pc EXCEPT ![w] = IF call[w].hit THEN "from_folder" ELSE "ls_retrieve"]
          /\ call' = call
       \/ /\ AcquireErr(w, call[w].path)
          /\ pc' = [pc EXCEPT ![w] = "ret"]
          /\ call' = [call EXCEPT ![w] = Returned(w, call[w], "ErrLock")]

\* What a successful retrieve leaves in dest.
Retrieve(loc, d) == [exists |-> TRUE, entries |-> d.entries \cup RemoteTree(loc)]

\* What a retrieve that fails (Network) can leave in dest.
RetrievePartial(loc, d) ==
    {[exists |-> TRUE, entries |-> d.entries \cup e] :
        e \in {FirstK(RemoteTree(loc), k) : k \in PartWay(Cardinality(RemoteTree(loc)))}}

\* Cache::load_source, line 140: loc.retrieve(&self.client, &dir)?
LoadSourceRetrieve(w) ==
    /\ pc[w] = "ls_retrieve"
    /\ UNCHANGED <<layout, layoutErr, succeeded, stored, idxVars>>
    /\ LET dir == call[w].path
           c == [call[w] EXCEPT !.nretr = @ + 1, !.rdest = dir, !.rlock = locks[dir]]
       IN  \/ /\ fs' = [fs EXCEPT ![dir] = Retrieve(c.loc, fs[dir])]
              /\ locks' = locks
              /\ retrieved' = retrieved \cup {dir}
              /\ netFailed' = netFailed
              /\ pc' = [pc EXCEPT ![w] = "from_folder"]
              /\ call' = [call EXCEPT ![w] = c]
           \/ /\ \E d \in RetrievePartial(c.loc, fs[dir]) : fs' = [fs EXCEPT ![dir] = d]
              /\ locks' = Released(w)
              /\ retrieved' = retrieved
              /\ netFailed' = netFailed \cup {dir}
              /\ pc' = [pc EXCEPT ![w] = "ret"]
              /\ call' = [call EXCEPT ![w] = Returned(w, c, "ErrNetwork")]

Manifests == {"a/b", "a/c"}

\* from_folder, were the manifest's name not compared with the package's.
from_folder_anyname(pkgName, entries) ==
    IF ~\E n \in Manifests \cup {"?"} : ManifestFile(n) \in entries
    THEN "ErrMissingManifest"
    ELSE IF BadManifest \in entries
    THEN "ErrInvalidIndex"
    ELSE "Source"

\* Source::from_folder, lines 430-446: the outcome the directory's elba.toml
\* decides for a package named pkgName.
from_folder(pkgName, entries) ==
    IF ~\E n \in Manifests \cup {"?"} : ManifestFile(n) \in entries
    THEN "ErrMissingManifest"
    ELSE IF BadManifest \in entries
    THEN "ErrInvalidIndex"
    ELSE IF ManifestFile(pkgName) \notin entries
    THEN "ErrNameMismatch"
    ELSE "Source"

\* The name the manifest in a directory declares.
manifest_name(entries) == CHOOSE n \in Manifests : ManifestFile(n) \in entries

\* Source::from_folder, lines 441-445: the message of the name mismatch.
mismatch_message(pkgName, found) ==
    "names don't match: " \o pkgName \o " was declared, but " \o found
        \o " was found in elba.toml"

\* FromFolder, were the DirLock passed to from_folder kept alive by a failed call.
FromFolderKeepLock(w) ==
    /\ pc[w] = "from_folder"
    /\ pc' = [pc EXCEPT ![w] = "ret"]
    /\ UNCHANGED <<layout, layoutErr, fs, locks, retrieved, netFailed, stored, idxVars>>
    /\ LET r == from_folder(NameStr(call[w].name), fs[call[w].path].entries)
       IN  \/ /\ r = "Source"
              /\ succeeded' = succeeded \cup {call[w].path}
              /\ call' = [call EXCEPT ![w] =
                             [Returned(w, call[w], r) EXCEPT !.meta = NameStr(call[w].name)]]
           \/ /\ succeeded' = succeeded
              /\ call' = [call EXCEPT ![w] =
                             Returned(w, call[w], IF r = "Source" THEN "ErrIO" ELSE r)]

\* Cache::checkout_source, line 111: Source::from_folder(pkg, p, loc.clone())
FromFolder(w) ==
    /\ pc[w] = "from_folder"
    /\ pc' = [pc EXCEPT ![w] = "ret"]
    /\ UNCHANGED <<layout, layoutErr, fs, retrieved, netFailed, stored, idxVars>>
    /\ LET r == from_folder(NameStr(call[w].name), fs[call[w].path].entries)
       IN  \/ /\ r = "Source"
              /\ locks' = locks
              /\ succeeded' = succeeded \cup {call[w].path}
              /\ call' = [call EXCEPT ![w] =
                             [Returned(w, call[w], r) EXCEPT !.meta = NameStr(call[w].name)]]
           \/ /\ locks' = Released(w)
              /\ succeeded' = succeeded
              /\ call' = [call EXCEPT ![w] =
                             [Returned(w, call[w], IF r = "Source" THEN "ErrIO" ELSE r)
                                 EXCEPT !.meta =
                                     IF r = "ErrNameMismatch"
                                     THEN mismatch_message(NameStr(call[w].name),
                                              manifest_name(fs[call[w].path].entries))
                                     ELSE ""]]

(***************************************************************************)
(* Indices: get_indices, the breadth-first discovery of the index graph.   *)
(***************************************************************************)
IX == [kind |-> "git", url |-> "X", tag |-> "m"]
IY == [kind |-> "dir", url |-> "/ix/Y", tag |-> ""]
IZ == [kind |-> "git", url |-> "Z", tag |-> "m"]
Idx == {IX, IY, IZ}
MaxEdges == 3

\* Cache::get_index_dir
get_index_dir(loc) == LocStr(loc)

\* The directory get_indices locks for a resolution (lines 245-246, 263-264).
IndexDir(l, index) ==
    IF index.kind = "dir" THEN index.url ELSE join(l.indices, get_index_dir(index))

IdxDirs == {IndexDir(LayoutNew(Root), i) : i \in Idx}

IndexFile == "index.toml"

\* Index::from_disk succeeds on a directory that holds a readable index.
from_disk_ok(d) == d.exists /\ IndexFile \in d.entries

\* What the Retriever materializes for an index resolution.
RetrieveIndex(index, d) == [exists |-> TRUE, entries |-> d.entries \cup {IndexFile}]

SeqsUpTo(S, n) == UNION {[1..k -> S] : k \in 0..n}

NoRepeat(s) == \A i, j \in DOMAIN s : i # j => s[i] # s[j]

Range(s) == {s[i] : i \in DOMAIN s}

RECURSIVE SumLen(_, _)
SumLen(g, S) ==
    IF S = {} THEN 0
    ELSE LET i == CHOOSE x \in S : TRUE IN Len(g[i]) + SumLen(g, S \ {i})

\* The dependency graphs the model draws from.
Graphs ==
    {g \in [Idx -> {d \in SeqsUpTo(Idx, MaxDeps) : NoRepeat(d)}] :
        SumLen(g, Idx) <= MaxEdges}

\* Cache::get_indices, lines 236-238
GetIndices(w, index_reses) ==
    /\ pc[w] = "idle"
    /\ seeds = <<>>
    /\ index_reses # <<>>
    /\ pc' = [pc EXCEPT ![w] = "gi_loop"]
    /\ call' = [call EXCEPT ![w] = [NoCall EXCEPT !.op = "get_indices"]]
    /\ seeds' = index_reses
    /\ q' = index_reses
    /\ enq' = index_reses
    /\ seen' = <<>>
    /\ indices' = <<>>
    /\ failed' = {}
    /\ UNCHANGED <<layout, layoutErr, fs, locks, srcHist, stored, graph, faults>>

\* Loaded, were the dependencies pushed on the front of the worklist.
LoadedDepthFirst(index) ==
    /\ q' = graph[index] \o Tail(q)
    /\ enq' = enq \o graph[index]
    /\ seen' = Append(seen, index)
    /\ indices' = Append(indices, index)
    /\ failed' = failed

\* Lines 253-259, 273-279, 285-291: a loaded index pushes its dependencies on
\* the worklist and is recorded in seen and indices.
Loaded(index) ==
    /\ q' = Tail(q) \o graph[index]
    /\ enq' = enq \o graph[index]
    /\ seen' = Append(seen, index)
    /\ indices' = Append(indices, index)
    /\ failed' = failed

\* Skipped, were a failure to end the loop.
SkippedAbort(index) ==
    /\ q' = <<>>
    /\ failed' = failed \cup {index}
    /\ UNCHANGED <<enq, seen, indices>>

\* Skipped, were a failed index put back on the worklist to be tried again.
SkippedRetry(index) ==
    /\ q' = Append(Tail(q), index)
    /\ failed' = failed \cup {index}
    /\ UNCHANGED <<enq, seen, indices>>

\* Lines 249, 268 and the failed if-lets: an index that could not be locked,
\* retrieved or read is skipped.
Skipped(index) ==
    /\ q' = Tail(q)
    /\ failed' = failed \cup {index}
    /\ UNCHANGED <<enq, seen, indices>>

\* Cache::get_indices, lines 240-293: one iteration of the while loop.
GetIndicesStep(w) ==
    /\ pc[w] = "gi_loop"
    /\ q # <<>>
    /\ UNCHANGED <<layout, layoutErr, pc, srcHist, stored, seeds, graph>>
    /\ LET index == Head(q)
           dir == IndexDir(layout, index)
           locked == [fs EXCEPT ![dir].exists = TRUE]
           held == [locks EXCEPT ![dir] = w]
           invoked == [call EXCEPT ![w].nretr = @ + 1, ![w].rdest = dir,
                                   ![w].rlock = held[dir]]
       IN  IF index \in Range(seen)
           THEN /\ q' = Tail(q)
                /\ UNCHANGED <<fs, locks, call, enq, seen, indices, failed, faults>>
           ELSE \/ \* DirLock::acquire fails: continue
                   /\ locks[dir] # Free \/ faults < MaxFaults
                   /\ faults' = IF locks[dir] # Free THEN faults ELSE faults + 1
                   /\ UNCHANGED <<fs, locks, call>>
                   /\ Skipped(index)
                \/ \* the lock is acquired
                   /\ locks[dir] = Free
                   /\ faults' = faults
                   /\ IF index.kind = "dir" \/ locked[dir].exists
                      THEN /\ fs' = locked
                           /\ call' = call
                           /\ IF from_disk_ok(locked[dir])
                              THEN locks' = held /\ Loaded(index)
                              ELSE locks' = locks /\ Skipped(index)
                      ELSE \/ \* index.retrieve(..).is_ok()
                              /\ fs' = [locked EXCEPT ![dir] = RetrieveIndex(index, @)]
                              /\ call' = invoked
                              /\ IF from_disk_ok(fs'[dir])
                                 THEN locks' = held /\ Loaded(index)
                                 ELSE locks' = locks /\ Skipped(index)
                           \/ \* the retrieval fails
                              /\ fs' = locked
                              /\ call' = invoked
                              /\ locks' = locks
                              /\ Skipped(index)

\* Cache::get_indices, line 295: Indices::new(indices)
GetIndicesReturn(w) ==
    /\ pc[w] = "gi_loop"
    /\ q = <<>>
    /\ pc' = [pc EXCEPT ![w] = "ret"]
    /\ call' = [call EXCEPT ![w].res = "Indices"]
    /\ UNCHANGED <<layout, layoutErr, fs, locks, srcHist, stored, idxVars>>

(***************************************************************************)
(* cli::new: the scaffolder, new and init.                                 *)
(***************************************************************************)
NameSnake == [group |-> "my_grp", name |-> "b"]

\* The destinations a package is scaffolded at.
NewPaths == {"/work/p", "/work/q"}

\* NewCtx { path, name, author, bin }
NewCtxs ==
    [path : NewPaths, name : {NameAB, NameSnake},
     author : {"", "me <me@x.org>"}, bin : BOOLEAN]

\* Inflector::to_pascal_case on the groups and names in use.
to_pascal_case(s) ==
    CASE s = "a" -> "A"
      [] s = "b" -> "B"
      [] s = "c" -> "C"
      [] s = "my_grp" -> "MyGrp"

\* init, lines 39-60: the target section of the manifest.
TargetText(ctx) ==
    IF ctx.bin
    THEN "[[targets.bin]] name=" \o ctx.name.name \o " main=src/Main.idr"
    ELSE "[targets.lib] path=src/ mods=[" \o to_pascal_case(ctx.name.group)
             \o "." \o to_pascal_case(ctx.name.name) \o "]"

\* init, lines 62-75: the file elba.toml with the text written into it.
ManifestText(ctx) ==
    "elba.toml=[package] name=" \o NameStr(ctx.name) \o " authors=[" \o ctx.author
        \o "] " \o TargetText(ctx)

\* An elba.toml whose write failed after the file was created.
TruncatedManifest == "elba.toml="

\* An elba.toml left by hand before the scaffolder ran.
HandManifest == "elba.toml=[package] name=x/y"

\* Every entry that is the file elba.toml, whatever its text.
ManifestEntries ==
    {ManifestText(c) : c \in NewCtxs} \cup {TruncatedManifest, HandManifest}

\* init, lines 78-79 and 98-99: the directories create_dir_all makes under path.
ModuleDirs(ctx) ==
    IF ctx.bin THEN {"src/"}
    ELSE {"src/", "src/" \o to_pascal_case(ctx.name.group) \o "/"}

\* init, lines 80-96 and 100-108: the source module; its text is determined by
\* its path.
ModuleFile(ctx) ==
    IF ctx.bin THEN "src/Main.idr"
    ELSE "src/" \o to_pascal_case(ctx.name.group) \o "/"
             \o to_pascal_case(ctx.name.name) \o ".idr"

\* The NewCtx of the scaffolder call c.
CtxOf(c) == [path |-> c.path, name |-> c.name, author |-> c.author, bin |-> c.bin]

\* The call record of new or init for ctx.
NewCall(op, ctx) ==
    [NoCall EXCEPT !.op = op, !.path = ctx.path, !.name = ctx.name,
                   !.author = ctx.author, !.bin = ctx.bin,
                   !.existed = fs[ctx.path].exists,
                   !.dirty = (fs[ctx.path].entries # {})]

\* new, were it to go on without looking whether the destination exists.
NewUnchecked(w, ctx) ==
    /\ pc[w] = "idle"
    /\ UNCHANGED <<layout, layoutErr, fs, locks, srcHist, stored, idxVars>>
    /\ pc' = [pc EXCEPT ![w] = "new_mkdir"]
    /\ call' = [call EXCEPT ![w] = NewCall("new", ctx)]

\* new, lines 15-23: bail when fs::metadata(path) succeeds.
New(w, ctx) ==
    /\ pc[w] = "idle"
    /\ UNCHANGED <<layout, layoutErr, fs, locks, srcHist, stored, idxVars>>
    /\ IF fs[ctx.path].exists
       THEN /\ pc' = [pc EXCEPT ![w] = "ret"]
            /\ call' = [call EXCEPT ![w] =
                           [NewCall("new", ctx) EXCEPT !.res = "ErrExists",
                                !.content = fs[ctx.path].entries]]
       ELSE /\ pc' = [pc EXCEPT ![w] = "new_mkdir"]
            /\ call' = [call EXCEPT ![w] = NewCall("new", ctx)]

\* new, lines 25-27: fs::create_dir_all(path)?, then init(ctx).
NewMkdir(w) ==
    /\ pc[w] = "new_mkdir"
    /\ UNCHANGED <<layout, layoutErr, locks, srcHist, stored, idxVars>>
    /\ \/ /\ fs' = [fs EXCEPT ![call[w].path].exists = TRUE]
          /\ pc' = [pc EXCEPT ![w] = "init_manifest"]
          /\ call' = call
       \/ /\ fs' = fs
          /\ pc' = [pc EXCEPT ![w] = "ret"]
          /\ call' = [call EXCEPT ![w] = Returned(w, call[w], "ErrIO")]

\* init called by itself, line 30: the directory is the caller's.
InitPackage(w, ctx) ==
    /\ pc[w] = "idle"
    /\ fs[ctx.path].exists
    /\ UNCHANGED <<layout, layoutErr, fs, locks, srcHist, stored, idxVars>>
    /\ pc' = [pc EXCEPT ![w] = "init_manifest"]
    /\ call' = [call EXCEPT ![w] = NewCall("init", ctx)]

\* fs::write(file): the file is created or truncated, then written.
WriteFile(d, same, file) == [d EXCEPT !.entries = (@ \ same) \cup {file}]

\* init, lines 62-75: fs::write(path/elba.toml, ...)?
InitManifest(w) ==
    /\ pc[w] = "init_manifest"
    /\ UNCHANGED <<layout, layoutErr, locks, srcHist, stored, idxVars>>
    /\ LET path == call[w].path
           ctx == CtxOf(call[w])
       IN  \/ /\ fs' = [fs EXCEPT ![path] =
                            WriteFile(fs[path], ManifestEntries, ManifestText(ctx))]
              /\ pc' = [pc EXCEPT ![w] = "init_srcdir"]
              /\ call' = call
           \/ /\ \E d \in {fs[path],
                            WriteFile(fs[path], ManifestEntries, TruncatedManifest)} :
                     fs' = [fs EXCEPT ![path] = d]
              /\ pc' = [pc EXCEPT ![w] = "ret"]
              /\ call' = [call EXCEPT ![w] = Returned(w, call[w], "ErrIO")]

\* init, lines 78-79 and 98-99: fs::create_dir_all(path/src...)?
InitCreateSrc(w) ==
    /\ pc[w] = "init_srcdir"
    /\ UNCHANGED <<layout, layoutErr, locks, srcHist, stored, idxVars>>
    /\ LET path == call[w].path
           ctx == CtxOf(call[w])
       IN  \/ /\ fs' = [fs EXCEPT ![path].entries = @ \cup ModuleDirs(ctx)]
              /\ pc' = [pc EXCEPT ![w] = "init_module"]
              /\ call' = call
           \/ /\ \E made \in {{}, {"src/"}} :
                     fs' = [fs EXCEPT ![path].entries = @ \cup made]
              /\ pc' = [pc EXCEPT ![w] = "ret"]
              /\ call' = [call EXCEPT ![w] = Returned(w, call[w], "ErrIO")]

\* init, lines 80-96, 100-108 and 111-115: fs::write of the source module, Ok.
InitModule(w) ==
    /\ pc[w] = "init_module"
    /\ pc' = [pc EXCEPT ![w] = "ret"]
    /\ UNCHANGED <<layout, layoutErr, locks, srcHist, stored, idxVars>>
    /\ LET path == call[w].path
           ctx == CtxOf(call[w])
       IN  \/ /\ fs' = [fs EXCEPT ![path] =
                            WriteFile(fs[path], {ModuleFile(ctx)}, ModuleFile(ctx))]
              /\ call' = [call EXCEPT ![w] = Returned(w, call[w], "Ok")]
           \/ /\ fs' = fs
              /\ call' = [call EXCEPT ![w] = Returned(w, call[w], "ErrIO")]

(***************************************************************************)
(* Initial states and specifications.                                      *)
(***************************************************************************)
AllPaths ==
    LayoutDirs(LayoutNew(Root)) \cup BuildDirs \cup TmpDirs \cup SrcDirs \cup NameDirs
        \cup {DirLoc.url} \cup IdxDirs \cup NewPaths

InitState ==
    /\ locks = [p \in AllPaths |-> Free]
    /\ call = [w \in Workers |-> NoCall]
    /\ retrieved = {}
    /\ netFailed = {}
    /\ succeeded = {}
    /\ stored = [h \in Hashes |-> [valid |-> FALSE, entries |-> {}]]
    /\ q = <<>>
    /\ seen = <<>>
    /\ indices = <<>>
    /\ seeds = <<>>
    /\ enq = <<>>
    /\ failed = {}
    /\ faults = 0

\* The state after Cache::from_disk(Root).
InitCommon ==
    /\ layout = LayoutNew(Root)
    /\ layoutErr = FALSE
    /\ pc = [w \in Workers |-> "idle"]
    /\ InitState

\* The directories Layout::new created; everything else is absent.
BaseFs == [p \in AllPaths |-> IF p \in LayoutDirs(LayoutNew(Root)) THEN EmptyDir ELSE NoDir]

\* The directories of a hash no worker operates on: left by an earlier run.
Bystanders ==
    {join(LayoutNew(Root).build, h) : h \in AllHashes \ Hashes}
        \cup {join(LayoutNew(Root).tmp, h) : h \in AllHashes \ Hashes}

\* The build cache, over build and tmp directories left by earlier runs.
InitBuild ==
    /\ InitCommon
    /\ graph = [i \in Idx |-> <<>>]
    /\ \E old \in SUBSET ((BuildDirs \cup TmpDirs) \ Bystanders) :
          fs = [p \in AllPaths |->
                   IF p \in old \cup Bystanders
                   THEN [exists |-> TRUE, entries |-> {Stale}]
                   ELSE BaseFs[p]]

NextBuild ==
    \/ \E w \in Workers, h \in Hashes : CheckoutBuild(w, h)
    \/ \E w \in Workers : CheckoutBuildAcquire(w)
    \/ \E w \in Workers, h \in Hashes : CheckoutTmp(w, h)
    \/ \E w \in Workers : CheckoutTmpClear(w)
    \/ \E w \in Workers : CheckoutTmpLayout(w)
    \/ \E w \in Workers, f \in ArtFiles : BuilderWrite(w, f)
    \/ \E w \in Workers, from \in TmpDirs, h \in Hashes : StoreBuild(w, from, h)
    \/ \E w \in Workers : StoreBuildAcquire(w)
    \/ \E w \in Workers : StoreBuildClear(w)
    \/ \E w \in Workers : StoreBuildCopy(w)
    \/ \E w \in Workers : Drop(w)

SpecBuild == InitBuild /\ [][NextBuild]_vars

\* Sources, over source directories seeded by earlier runs and a local package
\* directory that holds a manifest or nothing.
InitSrc ==
    /\ InitCommon
    /\ graph = [i \in Idx |-> <<>>]
    /\ \E seeded \in SUBSET SrcDirs, local \in {{}, {ManifestFile("a/b"), "src/Main.idr"}} :
          fs = [p \in AllPaths |->
                   IF p \in seeded THEN [exists |-> TRUE, entries |-> {ManifestFile("a/b")}]
                   ELSE IF p = DirLoc.url THEN [exists |-> TRUE, entries |-> local]
                   ELSE BaseFs[p]]

NextSrc ==
    \/ \E w \in Workers, k \in SrcCalls : CheckoutSource(w, k[1], k[2], k[3])
    \/ \E w \in Workers : LoadSourceAcquire(w)
    \/ \E w \in Workers : LoadSourceRetrieve(w)
    \/ \E w \in Workers : FromFolder(w)
    \/ \E w \in Workers : Drop(w)

SpecSrc == InitSrc /\ [][NextSrc]_vars

\* Index discovery, over every bounded dependency graph; at most one index is
\* missing from the disk.
InitIdx ==
    /\ InitCommon
    /\ graph \in Graphs
    /\ \E missing \in {m \in SUBSET Idx : Cardinality(m) <= 1} :
          fs = [p \in AllPaths |->
                   IF \E i \in Idx \ missing : p = IndexDir(LayoutNew(Root), i)
                   THEN [exists |-> TRUE, entries |-> {IndexFile}]
                   ELSE BaseFs[p]]

NextIdx ==
    \/ \E s \in SeqsUpTo(Idx, MaxSeeds) : GetIndices(1, s)
    \/ GetIndicesStep(1)
    \/ GetIndicesReturn(1)
    \/ Drop(1)

SpecIdx == InitIdx /\ [][NextIdx]_vars

(***************************************************************************)
(* Properties of get_indices (SpecIdx).                                    *)
(***************************************************************************)
RECURSIVE IsSubseq(_, _)
IsSubseq(a, b) ==
    IF a = <<>> THEN TRUE
    ELSE IF b = <<>> THEN FALSE
    ELSE IF Head(a) = Head(b) THEN IsSubseq(Tail(a), Tail(b))
    ELSE IsSubseq(a, Tail(b))

FirstIdx(s, x) == CHOOSE i \in DOMAIN s : s[i] = x /\ \A j \in 1..(i - 1) : s[j] # x

Min(S) == CHOOSE m \in S : \A n \in S : m <= n

\* The positions in the result of the loaded indices that declare x.
Parents(x) == {i \in DOMAIN indices : x \in Range(graph[indices[i]])}

\* Where breadth-first discovery first meets x: a seed at its place in the seed
\* list (level 0), any other index at its place in the dependency list of the
\* earliest loaded index that declares it.
DiscoveryKey(x) ==
    IF x \in Range(seeds) THEN <<0, FirstIdx(seeds, x)>>
    ELSE LET p == Min(Parents(x)) IN <<p, FirstIdx(graph[indices[p]], x)>>

KeyBefore(a, b) == a[1] < b[1] \/ (a[1] = b[1] /\ a[2] < b[2])

BreadthFirst ==
    /\ \A x \in Range(indices) : x \in Range(seeds) \/ Parents(x) # {}
    /\ \A i, j \in DOMAIN indices :
          KeyBefore(DiscoveryKey(indices[i]), DiscoveryKey(indices[j])) => i < j

\* The graph of scenario F: X -> Y, Y -> {X, Z}, Z -> {}.
ScenarioF == (IX :> <<IY>>) @@ (IY :> <<IX, IZ>>) @@ (IZ :> <<>>)

\* C1 as stated: get_indices returns each discovered DirectRes at most once and
\* in breadth-first discovery order from the seed list: the seeds in their given
\* order first, then the dependencies of each loaded index in the order they
\* were enqueued.
C1_Original == NoRepeat(indices) /\ BreadthFirst

\* C1 (amended): get_indices returns each discovered DirectRes at most once, in the order
\* of the worklist (the seeds in their given order, then the dependencies of
\* each loaded index in the order they were pushed): the result is a
\* duplicate-free subsequence of the pushes; when no index fails on one
\* occurrence and loads on a later one it is exactly breadth-first order from
\* the seeds; and on X -> Y, Y -> {X, Z}, Z -> {} with seeds [X] and nothing
\* failing the result is [X, Y, Z].
C1_DiscoveryOrder ==
    /\ NoRepeat(indices)
    /\ IsSubseq(indices, enq)
    /\ (failed \cap Range(indices) = {}) => BreadthFirst
    /\ (pc[1] = "ret" /\ seeds = <<IX>> /\ graph = ScenarioF /\ failed = {})
          => indices = <<IX, IY, IZ>>

\* C1 witness: scenario F ran to its end, across the cycle X -> Y -> X.
C1_Witness ==
    /\ pc[1] = "ret"
    /\ call[1].res = "Indices"
    /\ seeds = <<IX>>
    /\ graph = ScenarioF
    /\ indices = <<IX, IY, IZ>>

\* What is reachable from the set R through the dependencies of the indices in L.
RECURSIVE ReachFrom(_, _)
ReachFrom(R, L) ==
    LET N == R \cup UNION {Range(graph[x]) : x \in R \cap L}
    IN  IF N = R THEN R ELSE ReachFrom(N, L)

SourceCalls == {w \in Workers : call[w].op = "checkout_source"}

HoldsNoLock(w) == \A p \in DOMAIN locks : locks[p] # w

C3_NoSecondRetrieval ==
    \A w \in SourceCalls : pc[w] = "ls_retrieve" => call[w].path \notin retrieved

\* C9 as stated: a checkout_source that begins after a retrieve into its
\* directory failed (Network) attempts the retrieval again: once it holds the
\* lock and reads the directory, it has invoked the Retriever.
C9_RetryRetrieves ==
    \A w \in SourceCalls :
        (call[w].retry /\ pc[w] = "from_folder") => call[w].nretr >= 1

ManagedDirs == BuildDirs \cup TmpDirs \cup SrcDirs \cup (IdxDirs \ {IY.url})

\* C4 as stated: a directory under layout.src, layout.build, layout.tmp or
\* layout.indices is created, cleared, copied into or populated only by a step
\* of an operation that holds its DirLock (or acquires it in that step).
C4_WritesUnderLock ==
    [][\A p \in ManagedDirs :
          fs'[p] # fs[p] => \E w \in Workers : locks[p] = w \/ locks'[p] = w]_vars

BuildCalls == {w \in Workers : call[w].op = "checkout_build"}

\* C5 as stated: after a store_build(from, h) succeeded, checkout_build(h)
\* returns Some(Binary) over exactly the contents of from.
C5_Original ==
    \A w \in BuildCalls :
        (pc[w] = "ret" /\ call[w].early /\ call[w].st.valid)
            => (call[w].res = "Some" /\ call[w].content = call[w].st.entries)

\* C5 (amended): after a store_build(from, h) succeeded, layout.build/<h> holds
\* exactly the contents of from (nothing of what it held before), and a
\* checkout_build(h) that can acquire the DirLock on it (the Binary that
\* store_build returned has been dropped and no other lock on it is live)
\* returns Some(Binary) over exactly those contents; while the lock cannot be
\* acquired it returns the lock error.
C5_StoreThenCheckout ==
    /\ \A h \in Hashes :
          stored[h].valid =>
             /\ fs[join(layout.build, h)].exists
             /\ fs[join(layout.build, h)].entries = stored[h].entries
    /\ \A w \in Workers :
          (call[w].op = "store_build" /\ call[w].res = "Binary")
             => (call[w].st.valid /\ call[w].content = call[w].st.entries)
    /\ \A w \in BuildCalls :
          (pc[w] = "ret" /\ call[w].st.valid /\ call[w].res # "ErrLock")
             => /\ call[w].res = "Some"
                /\ call[w].content = call[w].st.entries
                /\ fs[call[w].path].entries = call[w].st.entries

\* C5 witness: a checkout_build returned a Binary over what a store_build into
\* a directory with earlier contents had copied.
C5_Witness ==
    \E w \in BuildCalls :
        /\ call[w].res = "Some"
        /\ call[w].st.valid
        /\ call[w].content # {}
        /\ Stale \notin call[w].content

\* C6 as stated: checkout_build(h) returns a Binary if and only if
\* layout.build/<h> exists at the time of the call.
C6_Original ==
    \A w \in BuildCalls :
        pc[w] = "ret" => ((call[w].res = "Some") <=> call[w].existed)

\* C6 (amended): checkout_build(h) returns a Binary, holding the lock on
\* layout.build/<h>, only if that directory exists at the time of the call;
\* when it exists the call returns the Binary or, if the DirLock cannot be
\* acquired, the lock error (holding nothing); when it does not exist the call
\* returns None and creates neither the directory nor a lock.
C6_CheckoutBuild ==
    /\ [](\A w \in BuildCalls :
            LET c == call[w]
            IN  /\ c.res = "Some" =>
                      (c.existed /\ c.path = join(layout.build, c.h) /\ locks[c.path] = w)
                /\ ~c.existed => (pc[w] = "ret" /\ c.res = "None" /\ HoldsNoLock(w))
                /\ (c.existed /\ pc[w] = "ret") => c.res \in {"Some", "ErrLock"}
                /\ c.res = "ErrLock" => HoldsNoLock(w))
    /\ [][\A w \in Workers :
            (pc[w] = "idle" /\ call'[w].op = "checkout_build"
                /\ ~fs[join(layout.build, call'[w].h)].exists)
               => (fs' = fs /\ locks' = locks /\ call'[w].res = "None")]_vars

\* C6 witness: a checkout_build of a missing directory returned None, and the
\* directory is still missing.
C6_Witness ==
    \E w \in BuildCalls :
        /\ call[w].res = "None"
        /\ ~call[w].existed
        /\ ~fs[join(layout.build, call[w].h)].exists

TmpCalls == {w \in Workers : call[w].op = "checkout_tmp"}

SpecIdxLive ==
    /\ InitIdx
    /\ [][NextIdx]_vars
    /\ WF_vars(GetIndicesStep(1))
    /\ WF_vars(GetIndicesReturn(1))

\* C11: get_indices terminates on every seed list and every dependency graph,
\* cycles, self-dependencies and failing indices included: every call that
\* entered the loop returns.  The worklist cannot grow for ever, because an
\* index is loaded at most once (it is in seen afterwards) and only a loaded
\* index pushes: what was ever pushed is the seeds and the dependencies of the
\* loaded indices, and nothing else.
C11_Terminates ==
    /\ [](/\ NoRepeat(indices)
          /\ Len(enq) = Len(seeds) + SumLen(graph, Range(indices))
          /\ Len(q) <= Len(enq))
    /\ (pc[1] = "gi_loop") ~> (pc[1] = "ret")

\* C11 witness: a call returned on a graph with a self-dependency and a cycle
\* between two indices, after an index failed.
C11_Witness ==
    /\ pc[1] = "ret"
    /\ failed # {}
    /\ \E x, y \in Range(indices) :
          /\ x # y
          /\ x \in Range(graph[x])
          /\ y \in Range(graph[x])
          /\ x \in Range(graph[y])

(***************************************************************************)
(* The Retriever under the DirLock (SpecRetr): worker 1 runs get_indices   *)
(* while worker 2 runs checkout_source.                                    *)
(***************************************************************************)
\* The index graph of scenario F with at most one index missing from the disk,
\* source directories seeded by earlier runs, and a local package directory.
InitRetr ==
    /\ InitCommon
    /\ graph = ScenarioF
    /\ \E missing \in {m \in SUBSET Idx : Cardinality(m) <= 1}, seeded \in SUBSET SrcDirs :
          fs = [p \in AllPaths |->
                   IF \E i \in Idx \ missing : p = IndexDir(LayoutNew(Root), i)
                   THEN [exists |-> TRUE, entries |-> {IndexFile}]
                   ELSE IF p \in seeded
                   THEN [exists |-> TRUE, entries |-> {ManifestFile("a/b")}]
                   ELSE IF p = DirLoc.url
                   THEN [exists |-> TRUE, entries |-> {ManifestFile("a/b"), "src/Main.idr"}]
                   ELSE BaseFs[p]]

NextRetr ==
    \/ NextIdx
    \/ \E k \in SrcCalls : CheckoutSource(2, k[1], k[2], k[3])
    \/ LoadSourceAcquire(2)
    \/ LoadSourceRetrieve(2)
    \/ FromFolder(2)
    \/ Drop(2)

SpecRetr == InitRetr /\ [][NextRetr]_vars

\* C12: in load_source and in get_indices every Retriever invocation on a
\* destination directory comes strictly after the calling operation acquired
\* the DirLock on that directory and while it holds it: a worker about to
\* retrieve holds the lock on its directory; the lock on the destination was
\* the caller's own when the Retriever was invoked; the step that invokes the
\* Retriever from load_source starts with the lock already held; and the lock
\* is still held when the retrieval has succeeded and the directory is read.
C12_RetrieveUnderLock ==
    /\ [](\A w \in Workers :
            /\ pc[w] = "ls_retrieve" => locks[call[w].path] = w
            /\ call[w].nretr > 0 => call[w].rlock = w
            /\ (call[w].nretr > 0 /\ call[w].op = "checkout_source")
                  => call[w].rdest = call[w].path
            /\ (call[w].nretr > 0 /\ pc[w] = "from_folder") => locks[call[w].rdest] = w
            /\ (call[w].nretr > 0 /\ call[w].res = "Source") => locks[call[w].rdest] = w)
    /\ [][\A w \in Workers :
            (call'[w].nretr > call[w].nretr /\ call[w].op = "checkout_source")
               => locks[call'[w].rdest] = w]_vars

\* C12 witness: a checkout_source returned a Source from a directory it had
\* retrieved into under its own lock, while a get_indices was running.
C12_Witness ==
    \E w \in Workers :
        /\ call[w].res = "Source"
        /\ call[w].nretr = 1
        /\ call[w].rlock = w
        /\ locks[call[w].rdest] = w
        /\ pc[1] = "gi_loop"

(***************************************************************************)
(* Errors of checkout_source (SpecSrc).                                    *)
(***************************************************************************)
SrcErrors ==
    {"ErrLock", "ErrNetwork", "ErrMissingManifest", "ErrInvalidIndex",
     "ErrNameMismatch", "ErrIO"}

\* C13: a checkout_source that returned an error, at whatever step (the lock
\* could not be acquired, the retrieval failed, elba.toml is missing,
\* unreadable or unparsable, the names differ, archiving failed), holds no
\* DirLock when it has returned: the lock it acquired on the source directory
\* is released and blocks no later DirLock::acquire on that path; only a call
\* that returned a Source keeps its lock, inside the Source.
C13_ErrorReleasesLock ==
    \A w \in SourceCalls :
        pc[w] = "ret" =>
            /\ call[w].res \in SrcErrors \cup {"Source"}
            /\ call[w].res \in SrcErrors =>
                  (HoldsNoLock(w) /\ locks[call[w].path] # w)
            /\ call[w].res = "Source" => locks[call[w].path] = w

\* C13 witness: a checkout_source failed in from_folder after it had retrieved
\* under its lock, and another worker has since acquired the same directory.
C13_Witness ==
    \E w, v \in SourceCalls :
        /\ w # v
        /\ pc[w] = "ret"
        /\ call[w].res \in SrcErrors \ {"ErrLock"}
        /\ call[w].nretr = 1
        /\ call[v].path = call[w].path
        /\ locks[call[w].path] = v

(***************************************************************************)
(* Source::from_folder over every kind of directory (SpecFolder).          *)
(***************************************************************************)
\* What from_folder can find in the directory: nothing, sources without a
\* manifest, an unreadable or unparsable elba.toml, the manifest of a/b or
\* that of a/c.
FolderContents ==
    {{}, {"src/Main.idr"}, {BadManifest, "src/Main.idr"},
     {ManifestFile("a/b"), "src/Main.idr"}, {ManifestFile("a/c")}}

FolderCalls ==
    {<<NameAB, DirLoc, NoVersion>>, <<NameAC, DirLoc, NoVersion>>,
     <<NameAB, TarLoc, V1>>}

InitFolder ==
    /\ InitCommon
    /\ graph = [i \in Idx |-> <<>>]
    /\ \E local \in FolderContents,
          cached \in {NoDir} \cup {[exists |-> TRUE, entries |-> e] : e \in FolderContents} :
          fs = [p \in AllPaths |->
                   IF p = DirLoc.url THEN [exists |-> TRUE, entries |-> local]
                   ELSE IF p = join(LayoutNew(Root).src, get_source_dir(NameAB, TarLoc, V1))
                   THEN cached
                   ELSE BaseFs[p]]

NextFolder ==
    \/ \E w \in Workers, k \in FolderCalls : CheckoutSource(w, k[1], k[2], k[3])
    \/ \E w \in Workers : LoadSourceAcquire(w)
    \/ \E w \in Workers : LoadSourceRetrieve(w)
    \/ \E w \in Workers : FromFolder(w)
    \/ \E w \in Workers : Drop(w)

SpecFolder == InitFolder /\ [][NextFolder]_vars

HasManifest(entries) == \E n \in Manifests \cup {"?"} : ManifestFile(n) \in entries

\* C14: Source::from_folder returns an error and no Source when elba.toml is
\* absent (MissingManifest), else when it is unreadable or unparsable
\* (InvalidIndex), else when the name it declares differs from pkg.name (an
\* error that names the declared and the found name), in this order; a Source
\* is returned only when the manifest's name equals pkg.name.
C14_FromFolderErrors ==
    \A w \in SourceCalls :
        (pc[w] = "ret" /\ call[w].res \notin {"ErrLock", "ErrNetwork"}) =>
            LET c == call[w]
                e == c.content
                pkg == NameStr(c.name)
            IN  /\ ~HasManifest(e) => c.res = "ErrMissingManifest"
                /\ (HasManifest(e) /\ BadManifest \in e) => c.res = "ErrInvalidIndex"
                /\ (HasManifest(e) /\ BadManifest \notin e /\ ManifestFile(pkg) \notin e)
                      => /\ c.res = "ErrNameMismatch"
                         /\ c.meta = mismatch_message(pkg, manifest_name(e))
                         /\ manifest_name(e) # pkg
                /\ (BadManifest \notin e /\ ManifestFile(pkg) \in e)
                      => c.res \in {"Source", "ErrIO"}
                /\ c.res = "Source" => (ManifestFile(pkg) \in e /\ c.meta = pkg)

\* C14 witness: a from_folder failed on a manifest that declares another name
\* than the package's.
C14_Witness ==
    \E w \in SourceCalls :
        /\ pc[w] = "ret"
        /\ call[w].res = "ErrNameMismatch"
        /\ call[w].name = NameAB
        /\ ManifestFile("a/c") \in call[w].content
        /\ call[w].meta = "names don't match: a/b was declared, but a/c was found in elba.toml"

(***************************************************************************)
(* Layout::new and the operations after it (SpecLayout): the Cache is      *)
(* constructed by Cache::from_disk, then one worker runs every operation.  *)
(***************************************************************************)
\* Layout::new, were it to create the root directory only.
LayoutCreateRootOnly(f, l, unmade) ==
    [p \in DOMAIN f |-> IF p = l.root THEN [f[p] EXCEPT !.exists = TRUE] ELSE f[p]]

\* Layout::new, lines 338-344: create_dir_all on each of the seven paths, every
\* error ignored; unmade is the set of the paths whose call hit an IO error
\* other than "already exists".
LayoutCreate(f, l, unmade) ==
    [p \in DOMAIN f |->
        IF p \in LayoutDirs(l) \ unmade THEN [f[p] EXCEPT !.exists = TRUE] ELSE f[p]]

\* The IO errors drawn for Layout::new: none, or the call for one directory.
LayoutFaults(l) == {{}, {l.artifacts}, {l.bin}}

\* Cache::from_disk, lines 89-100: Layout::new(&location).
FromDisk(location) ==
    /\ \A w \in Workers : pc[w] = "new"
    /\ layout' = LayoutNew(location)
    /\ \E unmade \in LayoutFaults(LayoutNew(location)) :
          /\ fs' = LayoutCreate(fs, LayoutNew(location), unmade)
          /\ layoutErr' = \E d \in unmade : ~fs[d].exists
    /\ pc' = [w \in Workers |-> "idle"]
    /\ UNCHANGED <<locks, call, srcHist, stored, idxVars>>

\* Before the Cache is constructed: the cache directory is missing, or part of
\* it was left by an earlier run; the local index /ix/Y is on the disk.
InitLayout ==
    /\ layout = NoLayout
    /\ layoutErr = FALSE
    /\ pc = [w \in Workers |-> "new"]
    /\ InitState
    /\ graph = ScenarioF
    /\ \E before \in {{}, {LayoutNew(Root).root, LayoutNew(Root).src}} :
          fs = [p \in AllPaths |->
                   IF p \in before THEN EmptyDir
                   ELSE IF p = IY.url
                   THEN [exists |-> TRUE, entries |-> {IndexFile}]
                   ELSE NoDir]

\* The worker runs an operation only once the Cache is constructed: before,
\* its pc is "new" and no operation is enabled.
NextLayout ==
    \/ FromDisk(Root)
    \/ \E h \in Hashes : CheckoutBuild(1, h)
    \/ CheckoutBuildAcquire(1)
    \/ \E h \in Hashes : CheckoutTmp(1, h)
    \/ CheckoutTmpClear(1)
    \/ CheckoutTmpLayout(1)
    \/ \E h \in Hashes : StoreBuild(1, join(LayoutNew(Root).tmp, h), h)
    \/ StoreBuildAcquire(1)
    \/ StoreBuildClear(1)
    \/ StoreBuildCopy(1)
    \/ CheckoutSource(1, NameAB, TarLoc, V1)
    \/ CheckoutSource(1, NameAB, DirLoc, NoVersion)
    \/ LoadSourceAcquire(1)
    \/ LoadSourceRetrieve(1)
    \/ FromFolder(1)
    \/ GetIndices(1, <<IY>>)
    \/ GetIndicesStep(1)
    \/ GetIndicesReturn(1)
    \/ Drop(1)

SpecLayout == InitLayout /\ [][NextLayout]_vars

\* C15: Layout::new returns a Layout (it cannot fail) that records the seven
\* paths root, src, build, tmp, artifacts, bin and indices; when none of its
\* create_dir_all calls hit an IO error other than "already exists" all seven
\* directories exist; and no later operation of the cache changes the recorded
\* paths or removes one of the seven directories.
C15_LayoutStable ==
    /\ [](layout # NoLayout =>
            /\ layout = LayoutNew(Root)
            /\ Cardinality(LayoutDirs(layout)) = 7
            /\ ~layoutErr => \A d \in LayoutDirs(layout) : fs[d].exists)
    /\ [][layout # NoLayout =>
            /\ layout' = layout
            /\ \A d \in LayoutDirs(layout) : fs[d].exists => fs'[d].exists]_vars

\* C15 witness: on a cache that Layout::new constructed without an IO error, a
\* store_build has completed and the seven directories are there.
C15_Witness ==
    /\ layout = LayoutNew(Root)
    /\ ~layoutErr
    /\ pc[1] = "ret"
    /\ call[1].res = "Binary"
    /\ retrieved # {}
    /\ indices # <<>>
    /\ \A d \in LayoutDirs(layout) : fs[d].exists

(***************************************************************************)
(* get_source_dir over Tar and Git resolutions and every version           *)
(* (SpecSrcDir).                                                           *)
(***************************************************************************)
InitSrcDir ==
    /\ InitCommon
    /\ graph = [i \in Idx |-> <<>>]
    /\ fs = BaseFs

\* Worker 1 asks for version 1.0.0 of the Tar and of the Git resolution, the
\* other workers for version 2.0.0 of the Tar resolution and for the Git
\* resolution without a version.
NextSrcDir ==
    \/ \E l \in {TarLoc, GitLoc} : CheckoutSource(1, NameAB, l, V1)
    \/ \E w \in Workers \ {1}, k \in NameCalls \ {<<NameAB, TarLoc, V1>>, <<NameAB, GitLoc, V1>>} :
          CheckoutSource(w, k[1], k[2], k[3])
    \/ \E w \in Workers : LoadSourceAcquire(w)
    \/ \E w \in Workers : LoadSourceRetrieve(w)
    \/ \E w \in Workers : FromFolder(w)
    \/ \E w \in Workers : Drop(w)

SpecSrcDir == InitSrcDir /\ [][NextSrcDir]_vars

\* The directory name of a call's path under layout.src.
DirName(c) == get_source_dir(c.name, c.loc, c.v)

\* C16: the directory a checkout_source works on is named by a function of
\* (name, loc, v) alone, of the form <group>_<name>-<hex>, in which the version
\* counts if and only if loc is Tar and a version is supplied: two calls with
\* the same name, loc and version work on the same directory; for a Git loc
\* the directory is the same for every version, none included; for a Tar loc
\* two different versions (or a version and none) give different directories.
C16_SourceDirName ==
    \A w, u \in SourceCalls :
        LET c == call[w]
            d == call[u]
        IN  /\ c.path = join(layout.src, DirName(c))
            /\ DirName(c) = c.name.group \o "_" \o c.name.name \o "-"
                                \o source_hash(c.name, c.loc, c.v)
            /\ (c.name = d.name /\ c.loc = d.loc /\ c.v = d.v) => c.path = d.path
            /\ (c.name = d.name /\ c.loc = d.loc /\ c.loc.kind = "git") => c.path = d.path
            /\ (c.name = d.name /\ c.loc = d.loc /\ c.loc.kind = "tar" /\ c.v # d.v)
                  => c.path # d.path
            /\ \A v \in Versions :
                  (get_source_dir(c.name, c.loc, v) = DirName(c))
                     <=> (v = c.v \/ c.loc.kind # "tar")

\* C16 witness: a call for a Git resolution without a version works on the
\* directory whose Source another worker obtained with version 1.0.0, while
\* the two versions of the Tar resolution have different directories.
C16_Witness ==
    \E w, u \in SourceCalls :
        /\ call[w].loc = GitLoc /\ call[u].loc = GitLoc
        /\ call[w].v = V1 /\ call[u].v = NoVersion
        /\ call[w].res = "Source"
        /\ call[u].path = call[w].path
        /\ get_source_dir(NameAB, TarLoc, V1) # get_source_dir(NameAB, TarLoc, V2)

(***************************************************************************)
(* Materializing a missing index (SpecIdx).                                *)
(***************************************************************************)
\* The directory of x was missing when get_indices reached it and the DirLock
\* on it was acquired: the acquire has created it, and it holds no index that
\* an earlier run had left.  (The directories present at the start hold one.)
ReachedMissing(x) ==
    /\ x.kind # "dir"
    /\ x \in failed \cup Range(indices)
    /\ fs[IndexDir(layout, x)].exists
    /\ (IndexFile \in fs[IndexDir(layout, x)].entries => call[1].nretr > 0)

\* C17 as stated: for a non-Dir index whose directory under layout.indices
\* does not exist when get_indices reaches it, get_indices acquires the
\* DirLock on the directory and then invokes the Retriever on it before
\* Index::from_disk.
C17_RetrievesMissing ==
    \A x \in Idx :
        ReachedMissing(x) =>
            (call[1].nretr >= 1 /\ call[1].rdest = IndexDir(layout, x))

(***************************************************************************)
(* The directories of an OutputLayout (SpecBuild).                         *)
(***************************************************************************)
\* C18 as stated: after OutputLayout::new(lock) returns, each of the six
\* directories it records (root, bin, lib, build, deps and artifacts) exists
\* under the locked root.
C18_OutputDirsExist ==
    \A w \in TmpCalls :
        call[w].res = "OutputLayout" =>
            /\ fs[call[w].path].exists
            /\ OutputLayoutRecorded \subseteq call[w].content

(***************************************************************************)
(* What checkout_build hands out (SpecBuild).                              *)
(***************************************************************************)
\* C19 as stated: a Binary that checkout_build(h) returns is over the contents
\* of the last store_build(_, h) that ran to successful completion (or over
\* what an earlier run left there), never over an empty or partially copied
\* directory that a failed store_build left.
C19_OnlyCompletedStores ==
    \A w \in BuildCalls :
        call[w].res = "Some" =>
            \/ call[w].st.valid /\ call[w].content = call[w].st.entries
            \/ call[w].content = {Stale}

(***************************************************************************)
(* Exclusive holders of build and tmp directories (SpecBuild).             *)
(***************************************************************************)
\* Worker w holds a live Binary or OutputLayout: a call of its returned one and
\* it has not dropped it.
Holds(w) ==
    /\ pc[w] = "ret"
    /\ call[w].res \in {"Some", "Binary", "OutputLayout"}

\* C20: while a worker holds a live Binary for h (from checkout_build or
\* store_build) or a live OutputLayout for h (from checkout_tmp), it has the
\* DirLock on the directory, and a store_build(_, h) or checkout_tmp(h) of
\* another worker fails with the lock error, clearing and overwriting nothing:
\* no step of another worker changes the directory for as long as the holder
\* holds it.
C20_HolderExclusive ==
    /\ [](\A w \in Workers : Holds(w) => locks[call[w].path] = w)
    /\ [][\A w \in Workers :
            (Holds(w) /\ Holds(w)') =>
               \A v \in Workers \ {w} :
                  /\ (pc'[v] # pc[v] \/ call'[v] # call[v])
                        => fs'[call[w].path] = fs[call[w].path]
                  /\ (pc'[v] # pc[v] /\ pc'[v] = "ret"
                         /\ call'[v].op \in {"store_build", "checkout_tmp"}
                         /\ call'[v].path = call[w].path)
                        => (call'[v].res = "ErrLock" /\ fs' = fs /\ locks' = locks)
                  /\ (call'[v].path = call[w].path
                         /\ call'[v].op \in {"store_build", "checkout_tmp"})
                        => pc'[v] \in {"sb_acquire", "ret"}]_vars

\* C20 witness: a worker holds the Binary of a store_build over the artifact it
\* copied, and another worker's store_build for the same hash has failed with
\* the lock error.
C20_Witness ==
    \E w, v \in Workers :
        /\ w # v
        /\ Holds(w)
        /\ call[w].res = "Binary"
        /\ call[w].content # {}
        /\ fs[call[w].path].entries = call[w].content
        /\ pc[v] = "ret"
        /\ call[v].op = "store_build"
        /\ call[v].path = call[w].path
        /\ call[v].res = "ErrLock"

(***************************************************************************)
(* What a build-cache operation leaves alone (SpecBuild).                  *)
(***************************************************************************)
\* The call worker w is in the middle of, or begins or ends with this step.
Acting(w) == IF pc[w] = "idle" THEN call'[w] ELSE call[w]

\* Worker w takes a step of one of its calls.
Steps(w) == pc'[w] # pc[w] \/ call'[w] # call[w]

\* Every directory but p is as it was, and so is every DirLock but p's.
OnlyTouches(p) ==
    \A o \in DOMAIN fs \ {p} : fs'[o] = fs[o] /\ locks'[o] = locks[o]

Destinations ==
    {NoDir, EmptyDir, [exists |-> TRUE, entries |-> {HandManifest, "src/", "src/Main.idr"}]}

InitNew ==
    /\ InitCommon
    /\ graph = [i \in Idx |-> <<>>]
    /\ \E before \in [NewPaths -> Destinations] :
          fs = [p \in AllPaths |-> IF p \in NewPaths THEN before[p] ELSE BaseFs[p]]

\* The command line runs one scaffolder call at a time.
NextNew ==
    \/ \E ctx \in NewCtxs : New(1, ctx)
    \/ NewMkdir(1)
    \/ \E ctx \in {c \in NewCtxs : c.name = NameAB /\ c.author = ""} : InitPackage(1, ctx)
    \/ InitManifest(1)
    \/ InitCreateSrc(1)
    \/ InitModule(1)
    \/ Drop(1)

SpecNew == InitNew /\ [][NextNew]_vars

\* The files among the entries of a directory.
Files(entries) == {e \in entries : e \notin {"src/", "src/A/", "src/MyGrp/"}}

\* C22: new(ctx) never overwrites an existing destination: a call that finds
\* ctx.path existing returns the error and no step of it creates or modifies
\* anything; only a call that found the path absent creates the directory and
\* then writes elba.toml and exactly one source module, src/Main.idr for a
\* binary target and src/<Group>/<Name>.idr for a library target.
C22_NewNeverOverwrites ==
    /\ [](\A w \in Workers :
            (pc[w] = "ret" /\ call[w].op = "new") =>
               /\ call[w].existed <=> call[w].res = "ErrExists"
               /\ call[w].res \in {"ErrExists", "ErrIO", "Ok"}
               /\ call[w].res = "Ok" =>
                     /\ fs[call[w].path].exists
                     /\ Files(fs[call[w].path].entries)
                           = {ManifestText(CtxOf(call[w])),
                              IF call[w].bin THEN "src/Main.idr"
                              ELSE "src/" \o to_pascal_case(call[w].name.group) \o "/"
                                      \o to_pascal_case(call[w].name.name) \o ".idr"})
    /\ [][\A w \in Workers :
            (Steps(w) /\ Acting(w).op = "new") =>
               /\ Acting(w).existed => fs' = fs
               /\ OnlyTouches(Acting(w).path)
               /\ fs[Acting(w).path].entries \subseteq fs'[Acting(w).path].entries
               /\ fs[Acting(w).path].exists => fs'[Acting(w).path].exists]_vars

\* C22 witness: a new for a library target has returned the error over the
\* destination an earlier new scaffolded a binary package at, which still
\* holds that package.
C22_Witness ==
    \E w \in Workers :
        /\ pc[w] = "ret"
        /\ call[w].op = "new"
        /\ call[w].res = "ErrExists"
        /\ ~call[w].bin
        /\ call[w].name = NameSnake
        /\ \E c \in NewCtxs :
              /\ c.bin
              /\ c.name = NameAB
              /\ fs[call[w].path].entries = {ManifestText(c), "src/", "src/Main.idr"}
====
